---- MODULE Spec2Model ----
(***************************************************************************)
(* SLA pause ledger and SLA clock of the SANEAR work-order application.    *)
(*                                                                         *)
(*   src/src/lib/sla.ts          pause ledger (upsert / close / hasOpen)   *)
(*   src/unnamed/part_000        crew view   (TerceirizadaVisao)           *)
(*   src/unnamed/part_001        list view   (ListaOrdensServico)          *)
(*   src/src/pages/CaminhaoHidrojato.tsx   dashboard (buildMetrics)        *)
(*                                                                         *)
(* Specifications:                                                         *)
(*   LedgerSpec    the pure ledger functions applied, call after call, to  *)
(*                 a pause list drawn from a bounded set of inputs;        *)
(*   Spec          one work order in the document store, the crew view and *)
(*                 the list view pausing and resuming it as time passes;   *)
(*   SpecExecucao  the same views, the crew also completing the order;     *)
(*   SpecEdicao    the same views, the list view also editing the status;  *)
(*   SpecPausa     the same views with the clock stopped;                  *)
(*   SpecDigitacao the same, the list view also typing a status;           *)
(*   SlaSpec       the SLA clock of the alert panel and of the dashboard   *)
(*                 applied to an order drawn from a bounded set of inputs; *)
(*   WalkSpec      one call of businessMsBetween, iteration by iteration.  *)
(*                                                                         *)
(* Encoding of JavaScript values:                                          *)
(*   null / undefined string  -> Null                                      *)
(*   null / undefined time    -> NoTime                                    *)
(*   serverTimestamp()        -> ServerTs (a FieldValue sentinel object)   *)
(*   Date / Timestamp         -> a natural number of hours since the epoch *)
(*   an array or null         -> [isArray, items]                          *)
(***************************************************************************)
EXTENDS Integers, Sequences, FiniteSets, TLC

VARIABLES
    \* ---- LedgerSpec ----
    pausas,      \* the pause list the next ledger call is applied to
    entrada,     \* the list the last ledger call received
    chamada,     \* the last ledger call: its name and arguments
    retorno,     \* what hasOpenSanearPause returned in the last call
    origem,      \* TRUE when the run started from an empty or absent list
    relogio,     \* Timestamp.now() of the next ledger call
    \* ---- Spec ----
    doc,         \* the stored work-order document
    crew,        \* crew view: ordens snapshot, modalOs, dialog, flags
    lista,       \* list view: ordens snapshot, detailsModalOs, dialog, flags
    agora,       \* wall clock, in hours since the epoch
    hist,        \* history: the last pause write and the last mark-as-waiting
    \* ---- SlaSpec ----
    osSla,       \* the order object the alert panel and the dashboard read
    nowTick,     \* the instant of the evaluation (nowTick / referenceDate)
    medida,      \* what slaSnapshot, buildMetrics and getSlaHoras computed
    \* ---- WalkSpec ----
    walk         \* one call of businessMsBetween: arguments, cursor, total, pc

ledgerVars == <<pausas, entrada, chamada, retorno, origem, relogio>>
appVars    == <<doc, crew, lista, agora, hist>>
slaVars    == <<osSla, nowTick, medida, walk>>
vars       == <<pausas, entrada, chamada, retorno, origem, relogio,
                doc, crew, lista, agora, hist, osSla, nowTick, medida, walk>>

(***************************************************************************)
(* Bounds of the model.                                                    *)
(***************************************************************************)
MaxInitLen == 2      \* longest pause list LedgerSpec starts from
MaxCalls   == 3      \* ledger calls per run of LedgerSpec

(***************************************************************************)
(* Values.                                                                 *)
(***************************************************************************)
Null     == "<null>"
NoTime   == -1
ServerTs == -2

\* Times are counted in hours, so one hour is one unit.
SLA_HORAS_PADRAO == 72
MS_POR_HORA      == 1

\* normTipo: String(v || "").toUpperCase().trim()
normTipo(v) ==
    CASE v = Null      -> ""
      [] v = "SANEAR"  -> "SANEAR"
      [] v = " sanear" -> "SANEAR"
      [] v = "OUTRO"   -> "OUTRO"
      [] OTHER         -> v

\* !(p.fimEm): null and undefined are falsy, a Date, a Timestamp or a
\* FieldValue sentinel is an object and truthy.
Falsy(t) == t = NoTime

\* a ?? b
Coalesce(a, b)  == IF a = Null THEN b ELSE a
CoalesceT(a, b) == IF a = NoTime THEN b ELSE a

\* Array.isArray(pausas) ? pausas : []
Absent     == [isArray |-> FALSE, items |-> <<>>]
AsList(s)  == [isArray |-> TRUE, items |-> s]
ArrOf(p)   == IF p.isArray THEN p.items ELSE <<>>

Pausa(tp, mo, de, ini, fim) ==
    [tipo |-> tp, motivo |-> mo, descricao |-> de, inicioEm |-> ini, fimEm |-> fim]

IsOpenSanear(p) == normTipo(p.tipo) = "SANEAR" /\ Falsy(p.fimEm)

\* Faulty scans, used to show that the properties below depend on the scan.
ScanLastOnly(arr, i) ==
    IF i >= 1 /\ IsOpenSanear(arr[i]) THEN i ELSE 0

ScanFirst(arr, i) ==
    IF \E j \in 1..i : IsOpenSanear(arr[j])
    THEN CHOOSE j \in 1..i :
            IsOpenSanear(arr[j]) /\ \A k \in 1..(j - 1) : ~IsOpenSanear(arr[k])
    ELSE 0

ScanAnySanear(arr, i) ==
    IF \E j \in 1..i : normTipo(arr[j].tipo) = "SANEAR"
    THEN CHOOSE j \in 1..i :
            normTipo(arr[j].tipo) = "SANEAR"
            /\ \A k \in (j + 1)..i : normTipo(arr[k].tipo) # "SANEAR"
    ELSE 0

\* The backward scan shared by the three ledger functions:
\*   for (i = arr.length - 1; i >= 0; i--) { ... if (!p.fimEm) return i; } return -1
\* Indices are 1-based here, so "not found" is 0.
RECURSIVE ScanOpen(_, _)
ScanOpen(arr, i) ==
    IF i < 1 THEN 0
    ELSE IF normTipo(arr[i].tipo) # "SANEAR" THEN ScanOpen(arr, i - 1)
    ELSE IF Falsy(arr[i].fimEm) THEN i
    ELSE ScanOpen(arr, i - 1)

FindOpenIdx(arr) == ScanOpen(arr, Len(arr))

hasOpenSanearPause(p) == FindOpenIdx(ArrOf(p)) # 0

upsertAlwaysPush(p, nova, now) ==
    Append(ArrOf(p),
           Pausa("SANEAR", nova.motivo, nova.descricao,
                 CoalesceT(nova.inicioEm, now), NoTime))

upsertIgnoresInicio(p, nova, now) ==
    LET arr == ArrOf(p)
        idx == FindOpenIdx(arr)
    IN  IF idx >= 1
        THEN [arr EXCEPT ![idx] =
                 [@ EXCEPT !.tipo      = "SANEAR",
                           !.motivo    = Coalesce(nova.motivo, @),
                           !.descricao = Coalesce(nova.descricao, @),
                           !.inicioEm  = CoalesceT(@, now),
                           !.fimEm     = NoTime]]
        ELSE Append(arr, Pausa("SANEAR", nova.motivo, nova.descricao, now, NoTime))

upsertKeepsOldText(p, nova, now) ==
    LET arr == ArrOf(p)
        idx == FindOpenIdx(arr)
    IN  IF idx >= 1
        THEN arr
        ELSE Append(arr,
                    Pausa("SANEAR", nova.motivo, nova.descricao,
                          CoalesceT(nova.inicioEm, now), NoTime))

upsertSanearPause(p, nova, now) ==
    LET arr      == ArrOf(p)
        idx      == FindOpenIdx(arr)
        inicioEm == CoalesceT(nova.inicioEm, now)
    IN  IF idx >= 1
        THEN [arr EXCEPT ![idx] =
                 [@ EXCEPT !.tipo      = "SANEAR",
                           !.motivo    = Coalesce(nova.motivo, @),
                           !.descricao = Coalesce(nova.descricao, @),
                           !.inicioEm  = CoalesceT(@, inicioEm),
                           !.fimEm     = NoTime]]
        ELSE Append(arr,
                    Pausa("SANEAR", nova.motivo, nova.descricao, inicioEm, NoTime))

closeStampsLast(p, fimEm, now) ==
    LET arr == ArrOf(p)
        idx == FindOpenIdx(arr)
        k   == IF idx = 0 THEN Len(arr) ELSE idx
    IN  IF k = 0 THEN arr
        ELSE [arr EXCEPT ![k] = [@ EXCEPT !.fimEm = CoalesceT(fimEm, now)]]

closeNothing(p, fimEm, now) == ArrOf(p)

closeSanearPause(p, fimEm, now) ==
    LET arr == ArrOf(p)
        idx == FindOpenIdx(arr)
    IN  IF idx = 0 THEN arr
        ELSE [arr EXCEPT ![idx] = [@ EXCEPT !.fimEm = CoalesceT(fimEm, now)]]

(***************************************************************************)
(* LedgerSpec: the ledger functions applied to bounded inputs.             *)
(***************************************************************************)
\* Entries a stored list may hold before the first call.
InitEntries ==
    { Pausa("SANEAR",  "SERVICO_PREVIO", "rede", 0, NoTime),
      Pausa("SANEAR",  "RISCO",          "vala", 0, 1),
      Pausa(" sanear", Null,             Null,   NoTime, NoTime),
      Pausa("OUTRO",   "OUTRO",          "obra", 0, NoTime),
      Pausa(Null,      Null,             Null,   NoTime, NoTime) }

RECURSIVE SeqsUpTo(_, _)
SeqsUpTo(S, n) ==
    IF n = 0 THEN { <<>> }
    ELSE LET shorter == SeqsUpTo(S, n - 1)
         IN  shorter \cup { Append(s, e) : s \in shorter, e \in S }

NovaMotivos    == {Null, "BLOQUEIO_ACESSO"}
NovaDescricoes == {Null, "acesso"}
TimeArgs(now)  == {NoTime, ServerTs, now}

NoCall == [op |-> "none", motivo |-> Null, descricao |-> Null,
           t |-> NoTime, now |-> NoTime]

LedgerInit ==
    /\ pausas \in {Absent} \cup { AsList(s) : s \in SeqsUpTo(InitEntries, MaxInitLen) }
    /\ entrada = pausas
    /\ chamada = NoCall
    /\ retorno = FALSE
    /\ origem = (ArrOf(pausas) = <<>>)
    /\ relogio = 2
    /\ doc = Null /\ crew = Null /\ lista = Null /\ agora = 0 /\ hist = Null
    /\ osSla = Null /\ nowTick = 0 /\ medida = Null /\ walk = Null

CallUpsert ==
    /\ relogio < 2 + MaxCalls
    /\ \E mo \in NovaMotivos, de \in NovaDescricoes, t \in TimeArgs(relogio) :
          /\ pausas' = AsList(upsertSanearPause(
                           pausas, [motivo |-> mo, descricao |-> de, inicioEm |-> t],
                           relogio))
          /\ chamada' = [op |-> "upsert", motivo |-> mo, descricao |-> de,
                         t |-> t, now |-> relogio]
    /\ entrada' = pausas
    /\ relogio' = relogio + 1
    /\ UNCHANGED <<retorno, origem>>
    /\ UNCHANGED appVars
    /\ UNCHANGED slaVars

CallClose ==
    /\ relogio < 2 + MaxCalls
    /\ \E t \in TimeArgs(relogio) :
          /\ pausas' = AsList(closeSanearPause(pausas, t, relogio))
          /\ chamada' = [op |-> "close", motivo |-> Null, descricao |-> Null,
                         t |-> t, now |-> relogio]
    /\ entrada' = pausas
    /\ relogio' = relogio + 1
    /\ UNCHANGED <<retorno, origem>>
    /\ UNCHANGED appVars
    /\ UNCHANGED slaVars

CallHasOpen ==
    /\ relogio < 2 + MaxCalls
    /\ retorno' = hasOpenSanearPause(pausas)
    /\ chamada' = [op |-> "hasOpen", motivo |-> Null, descricao |-> Null,
                   t |-> NoTime, now |-> relogio]
    /\ entrada' = pausas
    /\ relogio' = relogio + 1
    /\ UNCHANGED <<pausas, origem>>
    /\ UNCHANGED appVars
    /\ UNCHANGED slaVars

LedgerNext == CallUpsert \/ CallClose \/ CallHasOpen

LedgerSpec == LedgerInit /\ [][LedgerNext]_vars

(***************************************************************************)
(* Spec: one work order in the store, the crew view and the list view.     *)
(***************************************************************************)
MaxTicks  == 1       \* clock ticks per run of Spec
MaxPausas == 2       \* longest pause list a view writes in a run of Spec

HorasPorDia == 24
DiasPorSemana == 7
EpochDow    == 4     \* getDay() of time 0: 1970-01-01 was a Thursday
TickHoras   == HorasPorDia \div 2

AGUARDANDO == "AGUARDANDO_SANEAR"
StatusIniciais == {"ABERTA", "EM_ANDAMENTO"}

\* String(value ?? "").trim().toUpperCase()
normalizeStatus(v) ==
    CASE v = Null -> ""
      [] OTHER    -> v

\* a || b on strings: null, undefined and "" are falsy
OrElse(a, b) == IF a = Null \/ a = "" THEN b ELSE a

Min(a, b) == IF a <= b THEN a ELSE b
Max(a, b) == IF a >= b THEN a ELSE b

\* A weekday numbering that starts the week on Monday (0 = Monday).
getDayIso(t) == (EpochDow - 1 + (t \div HorasPorDia)) % DiasPorSemana

\* Date.getDay() of an hour count, local time taken as UTC: 0 = Sunday, 6 = Saturday
getDay(t) == (EpochDow + (t \div HorasPorDia)) % DiasPorSemana

\* businessMsBetween: walks from start to end one calendar day at a time and
\* adds the segment of every day that is not a Saturday or a Sunday.
RECURSIVE BusinessWalk(_, _, _)
BusinessWalk(cursor, end, total) ==
    IF ~(cursor < end) THEN total
    ELSE LET day          == getDay(cursor)
             isWeekend    == day = 0 \/ day = 6
             nextMidnight == ((cursor \div HorasPorDia) + 1) * HorasPorDia
             segmentEndMs == Min(end, nextMidnight)
             segmentMs    == Max(0, segmentEndMs - cursor)
         IN  BusinessWalk(segmentEndMs, end,
                          IF isWeekend THEN total ELSE total + segmentMs)

\* Elapsed time that does not skip the weekend.
businessMsRaw(start, end) == IF end <= start THEN 0 ELSE end - start

businessMsBetween(start, end) ==
    IF end <= start THEN 0 ELSE BusinessWalk(start, end, 0)

\* toJsDate / anyToDate: a Date or a Timestamp gives a date, anything else null
toJsDate(v) == IF v >= 0 THEN v ELSE NoTime

isDoneStatus(st) == st \in {"CONCLUIDA", "CONCLUIDO"}

\* The order object a view holds.  A field the view's snapshot mapping does
\* not copy is undefined in the object: Null, Absent.
OS(st, cr, antes, ps) ==
    [status |-> st, createdAt |-> cr, statusAntes |-> antes, slaPausas |-> ps]

\* onSnapshot mapping of the crew view and of the list view: neither copies
\* slaPausas, statusAntesAguardandoSanear or slaHoras.
MapCrew(d)  == OS(d.status, d.createdAt, Null, Absent)
MapLista(d) == OS(d.status, d.createdAt, Null, Absent)
\* onSnapshot mapping of the dashboard: copies slaPausas.
MapDash(d)  == OS(d.status, d.createdAt, Null, d.slaPausas)

\* A paused time that counts a closed pause only once its end has passed.
RECURSIVE AlertPausadoEncerradas(_, _)
AlertPausadoEncerradas(arr, now) ==
    IF arr = <<>> THEN 0
    ELSE LET p   == Head(arr)
             ini == toJsDate(p.inicioEm)
             fim == CoalesceT(toJsDate(p.fimEm), now)
         IN  (IF p.tipo # "SANEAR" \/ ini = NoTime \/ fim > now THEN 0
              ELSE businessMsBetween(ini, fim))
             + AlertPausadoEncerradas(Tail(arr), now)

\* A paused time that measures each SANEAR pause by the clock, end - start.
RECURSIVE AlertPausadoBruto(_, _)
AlertPausadoBruto(arr, now) ==
    IF arr = <<>> THEN 0
    ELSE LET p   == Head(arr)
             ini == toJsDate(p.inicioEm)
             fim == CoalesceT(toJsDate(p.fimEm), now)
         IN  (IF p.tipo # "SANEAR" \/ ini = NoTime THEN 0
              ELSE Max(0, fim - ini))
             + AlertPausadoBruto(Tail(arr), now)

\* slaSnapshot, per order: ageMs = max(0, baseMs - pausadoMs)
RECURSIVE AlertPausado(_, _)
AlertPausado(arr, now) ==
    IF arr = <<>> THEN 0
    ELSE LET p   == Head(arr)
             ini == toJsDate(p.inicioEm)
             fim == CoalesceT(toJsDate(p.fimEm), now)
         IN  (IF p.tipo # "SANEAR" \/ ini = NoTime THEN 0
              ELSE businessMsBetween(ini, fim))
             + AlertPausado(Tail(arr), now)

\* abertas: the orders slaSnapshot looks at
AlertListed(os) == ~isDoneStatus(os.status) /\ os.createdAt # NoTime

AlertAgeMs(os, now) ==
    LET baseMs == IF os.createdAt # NoTime
                  THEN businessMsBetween(os.createdAt, now) ELSE 0
    IN  Max(0, baseMs - AlertPausado(ArrOf(os.slaPausas), now))

\* A paused time that counts SANEAR pauses only.
RECURSIVE DashPausadoSanear(_, _)
DashPausadoSanear(arr, today) ==
    IF arr = <<>> THEN 0
    ELSE LET p   == Head(arr)
             ini == toJsDate(p.inicioEm)
             fim == CoalesceT(toJsDate(p.fimEm), today)
         IN  (IF ini = NoTime \/ p.tipo # "SANEAR" THEN 0
              ELSE IF fim - ini > 0 THEN fim - ini ELSE 0)
             + DashPausadoSanear(Tail(arr), today)

\* buildMetrics, per order: utilMs = today - created - pausadoMs
RECURSIVE DashPausado(_, _)
DashPausado(arr, today) ==
    IF arr = <<>> THEN 0
    ELSE LET p   == Head(arr)
             ini == toJsDate(p.inicioEm)
             fim == CoalesceT(toJsDate(p.fimEm), today)
         IN  (IF ini = NoTime THEN 0
              ELSE IF fim - ini > 0 THEN fim - ini ELSE 0)
             + DashPausado(Tail(arr), today)

DashUtilMs(os, today) ==
    today - os.createdAt - DashPausado(ArrOf(os.slaPausas), today)

\* updateDoc: a FieldValue sentinel inside an array is rejected by the store
\* (sla.ts, header note), so such a write throws.
HasSentinel(arr) ==
    \E i \in DOMAIN arr : arr[i].inicioEm = ServerTs \/ arr[i].fimEm = ServerTs

WriteAccepted(arr) == ~HasSentinel(arr)

ClosedModal == [open |-> FALSE, os |-> OS(Null, NoTime, Null, Absent)]
OpenModal(o) == [open |-> TRUE, os |-> o]

\* Texts typed into the justification dialog.
Descricoes == {"  a ", "rede"}

\* The length of the text as typed: both texts have four characters.
LenSemTrim(d) == 4

\* aguardandoDescricao.trim().length
TrimLen(d) == IF d = "  a " THEN 1 ELSE 4
MOTIVO_PADRAO == "SERVICO_PREVIO"

NoHist == [op |-> "none", by |-> "none", ok |-> FALSE, pend |-> FALSE,
           fecha |-> FALSE, S |-> Null, idx |-> 0, ini |-> NoTime,
           msg |-> "none", upload |-> FALSE, nota |-> Null, busy |-> FALSE]

Init ==
    /\ \E st \in StatusIniciais :
          /\ doc = OS(st, 0, Null, Absent)
          /\ crew = [ordens |-> MapCrew(doc), modal |-> ClosedModal,
                     dlg |-> FALSE]
          /\ lista = [ordens |-> MapLista(doc), modal |-> ClosedModal,
                      dlg |-> FALSE, editing |-> FALSE]
    /\ agora = 0
    /\ hist = NoHist
    /\ pausas = Absent /\ entrada = Absent /\ chamada = NoCall
    /\ retorno = FALSE /\ origem = TRUE /\ relogio = 0
    /\ osSla = Null /\ nowTick = 0 /\ medida = Null /\ walk = Null

\* History. op, by, ok: the last pause action, its view and whether its store
\* write succeeded.  S, idx, ini: the stored status before the last successful
\* mark-as-waiting of an order that was not waiting, and the position and start
\* of the pause it opened.  pend: no resume has succeeded since that mark.
\* fecha: the last action is the first successful resume after that mark.
\* msg: the message the last handler showed (info modal, alert modal or status
\* line).  upload: the last handler sent photos to the storage bucket.
\* nota: the text the last mark-as-waiting read from the dialog.  busy: the
\* in-progress flag (isUpdatingStatus, savingDetails) the last pause action
\* left behind.

\* A handler without the finally block: the flag stays as the try block set it.
SemFinally(flag) == flag

\* try { setSavingDetails(true); ... } finally { setSavingDetails(false); }
AposFinally(flag) == FALSE

MsgPausa(by, ok) ==
    IF ~ok THEN "erro" ELSE IF by = "lista" THEN "sucesso" ELSE "none"

HistMarcar(by, ok, novas) ==
    IF ok /\ doc.status # AGUARDANDO
    THEN [op |-> "marcar", by |-> by, ok |-> TRUE, pend |-> TRUE, fecha |-> FALSE,
          S |-> doc.status, idx |-> FindOpenIdx(novas),
          ini |-> novas[FindOpenIdx(novas)].inicioEm,
          msg |-> MsgPausa(by, TRUE), upload |-> FALSE, nota |-> Null,
          busy |-> AposFinally(TRUE)]
    ELSE [hist EXCEPT !.op = "marcar", !.by = by, !.ok = ok, !.fecha = FALSE,
                      !.msg = MsgPausa(by, ok), !.upload = FALSE,
                      !.nota = Null, !.busy = AposFinally(TRUE)]

HistRetomar(by, ok) ==
    [hist EXCEPT !.op = "retomar", !.by = by, !.ok = ok,
                 !.fecha = ok /\ hist.pend,
                 !.pend = IF ok THEN FALSE ELSE @,
                 !.msg = MsgPausa(by, ok), !.upload = FALSE,
                 !.nota = Null, !.busy = AposFinally(TRUE)]

\* handleServicoExecutado and handleSaveDetails
HistOutro(op, by, ok, msg, upload) ==
    [hist EXCEPT !.op = op, !.by = by, !.ok = ok, !.fecha = FALSE,
                 !.msg = msg, !.upload = upload, !.nota = Null]

\* The early return of handleMarcarAguardandoSanear: a message and nothing else.
HistDescricao(by) ==
    [hist EXCEPT !.op = "marcar", !.by = by, !.ok = FALSE, !.fecha = FALSE,
                 !.msg = "descricao", !.upload = FALSE]

Anotar(h, descricao) == [h EXCEPT !.nota = descricao]

CONCLUIDA == "CONCLUIDA"

\* stAtual.startsWith("CONCLU")
StartsWithConclu(st) == st \in {"CONCLUIDA", "CONCLUIDO"}

\* A completion guard that looks at the pause list only.
EsperaSoPausa(os) == hasOpenSanearPause(os.slaPausas)

\* st === "AGUARDANDO_SANEAR" || hasOpenSanearPause(os.slaPausas)
EsperaSanear(os) ==
    normalizeStatus(os.status) = AGUARDANDO \/ hasOpenSanearPause(os.slaPausas)

\* ---- the clock --------------------------------------------------------
Tick ==
    /\ agora < MaxTicks * TickHoras
    /\ agora' = agora + TickHoras
    /\ UNCHANGED <<doc, crew, lista, hist>>
    /\ UNCHANGED ledgerVars
    /\ UNCHANGED slaVars

\* Every handler below is one step: it computes the update from the order its
\* modal holds, awaits updateDoc and then patches the modal.  A write either
\* reaches the store or throws (net = FALSE, or a sentinel inside the array).
\* The writing view's own listener fires with the local write, so its ordens
\* is refreshed in the same step; the other view learns of the write through
\* its own snapshot step.

\* ---- crew view (TerceirizadaVisao) -------------------------------------
CrewSnapshot ==
    /\ crew.ordens # MapCrew(doc)
    /\ crew' = [crew EXCEPT !.ordens = MapCrew(doc)]
    /\ UNCHANGED <<doc, lista, agora, hist>>
    /\ UNCHANGED ledgerVars
    /\ UNCHANGED slaVars

CrewOpenModal ==
    /\ crew.modal # OpenModal(crew.ordens)
    /\ crew' = [crew EXCEPT !.modal = OpenModal(crew.ordens)]
    /\ UNCHANGED <<doc, lista, agora, hist>>
    /\ UNCHANGED ledgerVars
    /\ UNCHANGED slaVars

CrewCloseModal ==
    /\ crew.modal.open
    /\ crew' = [crew EXCEPT !.modal = ClosedModal]
    /\ UNCHANGED <<doc, lista, agora, hist>>
    /\ UNCHANGED ledgerVars
    /\ UNCHANGED slaVars

CrewOpenDialog ==
    /\ crew.modal.open
    /\ ~crew.dlg
    /\ normalizeStatus(crew.modal.os.status) # AGUARDANDO
    /\ crew' = [crew EXCEPT !.dlg = TRUE]
    /\ UNCHANGED <<doc, lista, agora, hist>>
    /\ UNCHANGED ledgerVars
    /\ UNCHANGED slaVars

CrewCancelDialog ==
    /\ crew.dlg
    /\ crew' = [crew EXCEPT !.dlg = FALSE]
    /\ UNCHANGED <<doc, lista, agora, hist>>
    /\ UNCHANGED ledgerVars
    /\ UNCHANGED slaVars

\* handleMarcarAguardandoSanear of the crew view: inicioEm is serverTimestamp()
CrewMarcar ==
    /\ crew.modal.open
    /\ crew.dlg
    /\ \E descricao \in Descricoes, net \in BOOLEAN :
        LET m           == crew.modal.os
            statusAtual == normalizeStatus(m.status)
            statusAntes == Coalesce(m.statusAntes,
                               IF statusAtual # "" /\ statusAtual # AGUARDANDO
                               THEN statusAtual ELSE "ABERTA")
            novas       == upsertSanearPause(m.slaPausas,
                               [motivo |-> MOTIVO_PADRAO, descricao |-> descricao,
                                inicioEm |-> ServerTs], agora)
            ok          == net /\ WriteAccepted(novas)
        IN  IF TrimLen(descricao) < 3
            THEN /\ hist' = Anotar(HistDescricao("crew"), descricao)
                 /\ UNCHANGED <<doc, crew>>
            ELSE /\ Len(novas) <= MaxPausas
                 /\ IF ok
                    THEN /\ doc' = [doc EXCEPT !.status = AGUARDANDO,
                                               !.statusAntes = statusAntes,
                                               !.slaPausas = AsList(novas)]
                         /\ crew' = [crew EXCEPT
                                !.ordens = MapCrew(doc'),
                                !.modal.os.status = AGUARDANDO,
                                !.modal.os.statusAntes = statusAntes,
                                !.modal.os.slaPausas = AsList(novas),
                                !.dlg = FALSE]
                    ELSE UNCHANGED <<doc, crew>>
                 /\ hist' = Anotar(HistMarcar("crew", ok, novas), descricao)
    /\ UNCHANGED <<lista, agora>>
    /\ UNCHANGED ledgerVars
    /\ UNCHANGED slaVars

\* handleRetomarSanear of the crew view: fimEm is serverTimestamp()
CrewRetomar ==
    /\ crew.modal.open
    /\ normalizeStatus(crew.modal.os.status) = AGUARDANDO
    /\ \E net \in BOOLEAN :
        LET m          == crew.modal.os
            fechadas   == closeSanearPause(m.slaPausas, ServerTs, agora)
            novoStatus == OrElse(m.statusAntes, "ABERTA")
            ok         == net /\ WriteAccepted(fechadas)
        IN  /\ IF ok
               THEN /\ doc' = [doc EXCEPT !.status = novoStatus,
                                          !.statusAntes = Null,
                                          !.slaPausas = AsList(fechadas)]
                    /\ crew' = [crew EXCEPT
                           !.ordens = MapCrew(doc'),
                           !.modal.os.status = novoStatus,
                           !.modal.os.statusAntes = Null,
                           !.modal.os.slaPausas = AsList(fechadas)]
               ELSE UNCHANGED <<doc, crew>>
            /\ hist' = HistRetomar("crew", ok)
    /\ UNCHANGED <<lista, agora>>
    /\ UNCHANGED ledgerVars
    /\ UNCHANGED slaVars

\* handleServicoExecutado: refuses while the modal's order waits for SANEAR,
\* asks for a photo when there is none, else uploads the photos and writes
\* status CONCLUIDA.  fotos: currentPhotos is not empty; enviado: every upload
\* succeeded; net: updateDoc succeeded.
CrewServicoExecutado ==
    /\ crew.modal.open
    /\ \E fotos \in BOOLEAN, enviado \in BOOLEAN, net \in BOOLEAN :
        LET m == crew.modal.os
        IN  IF EsperaSanear(m)
            THEN /\ hist' = HistOutro("executado", "crew", FALSE, "aguardando", FALSE)
                 /\ UNCHANGED <<doc, crew>>
            ELSE IF ~fotos
            THEN /\ hist' = HistOutro("executado", "crew", FALSE, "foto", FALSE)
                 /\ UNCHANGED <<doc, crew>>
            ELSE IF enviado /\ net
            THEN /\ doc' = [doc EXCEPT !.status = CONCLUIDA]
                 /\ crew' = [crew EXCEPT !.ordens = MapCrew(doc'),
                                         !.modal.os.status = CONCLUIDA]
                 /\ hist' = HistOutro("executado", "crew", TRUE, "sucesso", TRUE)
            ELSE /\ hist' = HistOutro("executado", "crew", FALSE, "erro", TRUE)
                 /\ UNCHANGED <<doc, crew>>
    /\ UNCHANGED <<lista, agora>>
    /\ UNCHANGED ledgerVars
    /\ UNCHANGED slaVars

\* ---- list view (ListaOrdensServico) ------------------------------------
\* The effect that keeps detailsModalOs equal to the snapshot's order while
\* the modal is open and not in edit mode; it runs after every change of the
\* snapshot, of detailsModalOs or of isEditingDetails.
SyncDetails(l) ==
    IF l.modal.open /\ ~l.editing
    THEN [l EXCEPT !.modal = OpenModal(l.ordens)]
    ELSE l

ListaSnapshot ==
    /\ lista.ordens # MapLista(doc)
    /\ lista' = SyncDetails([lista EXCEPT !.ordens = MapLista(doc)])
    /\ UNCHANGED <<doc, crew, agora, hist>>
    /\ UNCHANGED ledgerVars
    /\ UNCHANGED slaVars

\* a click on the row opens the details; the row's edit button opens them in
\* edit mode
ListaOpenModal ==
    /\ \E ed \in BOOLEAN :
          /\ lista' = SyncDetails([lista EXCEPT !.modal = OpenModal(lista.ordens),
                                                !.editing = ed])
          /\ lista' # lista
    /\ UNCHANGED <<doc, crew, agora, hist>>
    /\ UNCHANGED ledgerVars
    /\ UNCHANGED slaVars

ListaCloseModal ==
    /\ lista.modal.open
    /\ lista' = [lista EXCEPT !.modal = ClosedModal, !.editing = FALSE]
    /\ UNCHANGED <<doc, crew, agora, hist>>
    /\ UNCHANGED ledgerVars
    /\ UNCHANGED slaVars

ListaOpenDialog ==
    /\ lista.modal.open
    /\ ~lista.dlg
    /\ normalizeStatus(lista.modal.os.status) # AGUARDANDO
    /\ lista' = [lista EXCEPT !.dlg = TRUE]
    /\ UNCHANGED <<doc, crew, agora, hist>>
    /\ UNCHANGED ledgerVars
    /\ UNCHANGED slaVars

ListaCancelDialog ==
    /\ lista.dlg
    /\ lista' = [lista EXCEPT !.dlg = FALSE]
    /\ UNCHANGED <<doc, crew, agora, hist>>
    /\ UNCHANGED ledgerVars
    /\ UNCHANGED slaVars

\* handleMarcarAguardandoSanear of the list view: inicioEm is new Date()
ListaMarcar ==
    /\ lista.modal.open
    /\ lista.dlg
    /\ \E descricao \in Descricoes, net \in BOOLEAN :
        LET m           == lista.modal.os
            statusAtual == normalizeStatus(m.status)
            statusAntes == Coalesce(m.statusAntes,
                               IF statusAtual # "" /\ statusAtual # AGUARDANDO
                               THEN statusAtual ELSE "ABERTA")
            novas       == upsertSanearPause(m.slaPausas,
                               [motivo |-> MOTIVO_PADRAO, descricao |-> descricao,
                                inicioEm |-> agora], agora)
            ok          == net /\ WriteAccepted(novas)
        IN  IF TrimLen(descricao) < 3
            THEN /\ hist' = Anotar(HistDescricao("lista"), descricao)
                 /\ UNCHANGED <<doc, lista>>
            ELSE /\ Len(novas) <= MaxPausas
                 /\ IF ok
                    THEN /\ doc' = [doc EXCEPT !.status = AGUARDANDO,
                                               !.statusAntes = statusAntes,
                                               !.slaPausas = AsList(novas)]
                         /\ lista' = SyncDetails([lista EXCEPT
                                !.ordens = MapLista(doc'),
                                !.modal.os.status = AGUARDANDO,
                                !.modal.os.statusAntes = statusAntes,
                                !.modal.os.slaPausas = AsList(novas),
                                !.dlg = FALSE])
                    ELSE UNCHANGED <<doc, lista>>
                 /\ hist' = Anotar(HistMarcar("lista", ok, novas), descricao)
    /\ UNCHANGED <<crew, agora>>
    /\ UNCHANGED ledgerVars
    /\ UNCHANGED slaVars

\* handleRetomarSanear of the list view: fimEm is new Date()
ListaRetomar ==
    /\ lista.modal.open
    /\ normalizeStatus(lista.modal.os.status) = AGUARDANDO
    /\ \E net \in BOOLEAN :
        LET m          == lista.modal.os
            fechadas   == closeSanearPause(m.slaPausas, agora, agora)
            novoStatus == OrElse(m.statusAntes, "ABERTA")
            ok         == net /\ WriteAccepted(fechadas)
        IN  /\ IF ok
               THEN /\ doc' = [doc EXCEPT !.status = novoStatus,
                                          !.statusAntes = Null,
                                          !.slaPausas = AsList(fechadas)]
                    /\ lista' = SyncDetails([lista EXCEPT
                           !.ordens = MapLista(doc'),
                           !.modal.os.status = novoStatus,
                           !.modal.os.statusAntes = Null,
                           !.modal.os.slaPausas = AsList(fechadas)])
               ELSE UNCHANGED <<doc, lista>>
            /\ hist' = HistRetomar("lista", ok)
    /\ UNCHANGED <<crew, agora>>
    /\ UNCHANGED ledgerVars
    /\ UNCHANGED slaVars

\* Values typed into the status field of the details modal.
StatusDigitados == {CONCLUIDA, "ABERTA"}

\* onChange of the status input; the field is read-only outside edit mode
ListaEditStatus ==
    /\ lista.modal.open
    /\ lista.editing
    /\ \E v \in StatusDigitados :
          /\ lista.modal.os.status # v
          /\ lista' = SyncDetails([lista EXCEPT !.modal.os.status = v])
    /\ UNCHANGED <<doc, crew, agora, hist>>
    /\ UNCHANGED ledgerVars
    /\ UNCHANGED slaVars

\* handleSaveDetails, for an operator who may edit the order; the button is
\* shown in edit mode only
ListaSaveDetails ==
    /\ lista.modal.open
    /\ lista.editing
    /\ \E net \in BOOLEAN :
        LET m                   == lista.modal.os
            stAtual             == normalizeStatus(m.status)
            temPausaSanearAtiva == stAtual = AGUARDANDO
                                   \/ hasOpenSanearPause(m.slaPausas)
            querConcluir        == StartsWithConclu(stAtual)
        IN  IF temPausaSanearAtiva /\ querConcluir
            THEN /\ hist' = HistOutro("salvar", "lista", FALSE, "aguardando", FALSE)
                 /\ UNCHANGED <<doc, lista>>
            ELSE IF net
            THEN /\ doc' = [doc EXCEPT !.status = OrElse(m.status, Null)]
                 /\ lista' = SyncDetails([lista EXCEPT !.ordens = MapLista(doc'),
                                                       !.editing = FALSE])
                 /\ hist' = HistOutro("salvar", "lista", TRUE, "sucesso", FALSE)
            ELSE /\ hist' = HistOutro("salvar", "lista", FALSE, "erro", FALSE)
                 /\ UNCHANGED <<doc, lista>>
    /\ UNCHANGED <<crew, agora>>
    /\ UNCHANGED ledgerVars
    /\ UNCHANGED slaVars

Next ==
    \/ Tick
    \/ CrewSnapshot \/ CrewOpenModal \/ CrewCloseModal
    \/ CrewOpenDialog \/ CrewCancelDialog \/ CrewMarcar \/ CrewRetomar
    \/ ListaSnapshot \/ ListaOpenModal \/ ListaCloseModal
    \/ ListaOpenDialog \/ ListaCancelDialog \/ ListaMarcar \/ ListaRetomar

Spec == Init /\ [][Next]_vars

\* SpecPausa: the two views with the clock stopped.
NextPausa ==
    \/ CrewSnapshot \/ CrewOpenModal \/ CrewCloseModal
    \/ CrewOpenDialog \/ CrewCancelDialog \/ CrewMarcar \/ CrewRetomar
    \/ ListaSnapshot \/ ListaOpenModal \/ ListaCloseModal
    \/ ListaOpenDialog \/ ListaCancelDialog \/ ListaMarcar \/ ListaRetomar

SpecPausa == Init /\ [][NextPausa]_vars

\* SpecDigitacao: the two views with the clock stopped, the list view's
\* operator also typing into the status field of the details.
NextDigitacao ==
    \/ CrewSnapshot \/ CrewOpenModal \/ CrewCloseModal
    \/ CrewOpenDialog \/ CrewCancelDialog \/ CrewMarcar \/ CrewRetomar
    \/ ListaSnapshot \/ ListaOpenModal \/ ListaCloseModal
    \/ ListaOpenDialog \/ ListaCancelDialog \/ ListaMarcar \/ ListaRetomar
    \/ ListaEditStatus

SpecDigitacao == Init /\ [][NextDigitacao]_vars

\* SpecExecucao: the two views with the clock stopped, the crew also pressing
\* "servico executado".
NextExecucao ==
    \/ CrewSnapshot \/ CrewOpenModal \/ CrewCloseModal
    \/ CrewOpenDialog \/ CrewCancelDialog \/ CrewMarcar \/ CrewRetomar
    \/ CrewServicoExecutado
    \/ ListaSnapshot \/ ListaOpenModal \/ ListaCloseModal
    \/ ListaOpenDialog \/ ListaCancelDialog \/ ListaMarcar \/ ListaRetomar

SpecExecucao == Init /\ [][NextExecucao]_vars

\* SpecEdicao: the two views with the clock stopped, the list view's operator
\* also editing the status field and saving the details.
NextEdicao ==
    \/ CrewSnapshot \/ CrewOpenModal \/ CrewCloseModal
    \/ CrewOpenDialog \/ CrewCancelDialog \/ CrewMarcar \/ CrewRetomar
    \/ ListaSnapshot \/ ListaOpenModal \/ ListaCloseModal
    \/ ListaOpenDialog \/ ListaCancelDialog \/ ListaMarcar \/ ListaRetomar
    \/ ListaEditStatus \/ ListaSaveDetails

SpecEdicao == Init /\ [][NextEdicao]_vars

(***************************************************************************)
(* SlaSpec: the SLA clock of the alert panel (slaSnapshot), of the         *)
(* dashboard (buildMetrics) and of sla.ts (getSlaHoras), applied to one    *)
(* order object as the evaluation instant advances and pauses are added.   *)
(***************************************************************************)
MaxDias     == 6     \* days the evaluation instant advances in a run of SlaSpec
MaxEntradas == 2     \* longest pause list of the order in SlaSpec

\* slaHoras as read from the record: any JavaScript value.
Num(n)       == [tipo |-> "number", v |-> n]
NaNValue     == [tipo |-> "NaN", v |-> 0]
Infinito     == [tipo |-> "Infinity", v |-> 0]
SlaUndefined == [tipo |-> "undefined", v |-> 0]
SlaNull      == [tipo |-> "null", v |-> 0]
SlaTexto     == [tipo |-> "string", v |-> 0]

\* typeof x === "number": NaN and Infinity are numbers
typeofNumber(x) == x.tipo \in {"number", "NaN", "Infinity"}
\* x > 0 on a number: false for NaN
GtZero(x)       == (x.tipo = "number" /\ x.v > 0) \/ x.tipo = "Infinity"
\* Number.isFinite(x)
isFinite(x)     == x.tipo = "number"

\* A threshold test that leaves the boundary out.
GeSlaEstrito(n, x) == x.tipo = "number" /\ n > x.v

\* n >= x, n > x, n < x and n >= x * 0.75 for a finite number n
GeSla(n, x)     == x.tipo = "number" /\ n >= x.v
GtSla(n, x)     == x.tipo = "number" /\ n > x.v
LtSla(n, x)     == x.tipo = "Infinity" \/ (x.tipo = "number" /\ n < x.v)
Ge075Sla(n, x)  == x.tipo = "number" /\ 4 * n >= 3 * x.v
TimesSla(x, k)  == IF x.tipo = "number" THEN Num(x.v * k) ELSE x

\* sla.ts getSlaHoras
getSlaHoras(os) ==
    LET v == os.slaHoras
    IN  IF typeofNumber(v) /\ isFinite(v) /\ GtZero(v) THEN v
        ELSE Num(SLA_HORAS_PADRAO)

\* slaSnapshot: typeof os.slaHoras === "number" && os.slaHoras > 0 ? ... : 72
AlertSlaHoras(os) ==
    IF typeofNumber(os.slaHoras) /\ GtZero(os.slaHoras) THEN os.slaHoras
    ELSE Num(SLA_HORAS_PADRAO)

\* buildMetrics: the same expression
DashSlaHoras(os) ==
    IF typeofNumber(os.slaHoras) /\ GtZero(os.slaHoras) THEN os.slaHoras
    ELSE Num(SLA_HORAS_PADRAO)

\* A conversion that turns a missing date into the epoch, as new Date(null).
anyToDateEpoch(v) == IF v >= 0 THEN v ELSE 0

\* buildMetrics anyToDate: a Date or a Timestamp gives a date, else null
anyToDate(v) == IF v >= 0 THEN v ELSE NoTime

\* slaSnapshot, for one order: the abertas filter, the per-order map and the
\* overdue / nearDue filters.  baseMs, pausadoMs and ageMs are what the map
\* function computes for the order object.
AlertaDe(os, now) ==
    LET listada   == AlertListed(os)
        created   == os.createdAt
        baseMs    == IF created # NoTime THEN businessMsBetween(created, now) ELSE 0
        pausadoMs == AlertPausado(ArrOf(os.slaPausas), now)
        ageMs     == AlertAgeMs(os, now)
        slaHoras  == AlertSlaHoras(os)
        slaMs     == TimesSla(slaHoras, MS_POR_HORA)
        naLista   == listada /\ ageMs > 0
    IN  [listada   |-> listada,
         baseMs    |-> baseMs,
         pausadoMs |-> pausadoMs,
         ageMs     |-> ageMs,
         slaHoras  |-> slaHoras,
         overdue   |-> naLista /\ GeSla(ageMs, slaMs),
         nearDue   |-> naLista /\ Ge075Sla(ageMs, slaMs) /\ LtSla(ageMs, slaMs)]

\* buildMetrics, for one order: the "Contagem de atraso" block.  contada: the
\* block ran (the order is not concluded and has a createdAt).
DashDe(os, today) ==
    LET s           == normalizeStatus(os.status)
        isConcluida == s \in {"CONCLUIDA", "CONCLUIDO", "CONCLUÍDA"}
        created     == anyToDate(os.createdAt)
        contada     == ~isConcluida /\ created # NoTime
        slaHoras    == DashSlaHoras(os)
        pausadoMs   == DashPausado(ArrOf(os.slaPausas), today)
        utilMs      == DashUtilMs([os EXCEPT !.createdAt = created], today)
        horasUtil   == utilMs \div MS_POR_HORA
    IN  [contada   |-> contada,
         pausadoMs |-> IF contada THEN pausadoMs ELSE 0,
         utilMs    |-> IF contada THEN utilMs ELSE 0,
         slaHoras  |-> slaHoras,
         atrasada  |-> contada /\ GtSla(horasUtil, slaHoras)]

Medir(os, now) ==
    [alerta |-> AlertaDe(os, now),
     painel |-> DashDe(os, now),
     slaLib |-> getSlaHoras(os)]

\* Instants, in hours since Thursday 00:00.
SexDez   == HorasPorDia + 10          \* Friday 10:00
SabDoze  == 2 * HorasPorDia + 12      \* Saturday 12:00
SegDez   == 4 * HorasPorDia + 10      \* the following Monday 10:00

CriadasEm  == {NoTime, 0, SexDez, SabDoze}
SlaValores == {SlaUndefined, SlaNull, SlaTexto, NaNValue, Infinito,
               Num(0), Num(0 - 5), Num(HorasPorDia), Num(SLA_HORAS_PADRAO)}

\* Pause entries the order's list is built from.
PausasSla ==
    { Pausa("SANEAR", "SERVICO_PREVIO", "rede", SexDez, SegDez),
      Pausa("SANEAR", "SERVICO_PREVIO", "rede", 6, TickHoras),
      Pausa("SANEAR", "SERVICO_PREVIO", "rede", SexDez + 2, NoTime),
      Pausa("OUTRO",  "OUTRO",          "obra", TickHoras, HorasPorDia + 6),
      Pausa("OUTRO",  "OUTRO",          "obra", HorasPorDia, NoTime),
      Pausa("SANEAR", "RISCO",          "vala", NoTime, TickHoras),
      Pausa("SANEAR", "RISCO",          "vala", SegDez, SexDez) }

SlaInit ==
    /\ \E c \in CriadasEm, h \in SlaValores, ps \in {Absent, AsList(<<>>)} :
          osSla = [status |-> "ABERTA", createdAt |-> c, slaHoras |-> h,
                   slaPausas |-> ps]
    /\ nowTick = 0
    /\ medida = Medir(osSla, nowTick)
    /\ pausas = Absent /\ entrada = Absent /\ chamada = NoCall
    /\ retorno = FALSE /\ origem = TRUE /\ relogio = 0
    /\ doc = Null /\ crew = Null /\ lista = Null /\ agora = 0 /\ hist = Null
    /\ walk = Null

\* setInterval tick of nowTick / a new referenceDate: both surfaces recompute
SlaTick ==
    /\ nowTick + TickHoras <= MaxDias * HorasPorDia
    /\ nowTick' = nowTick + TickHoras
    /\ medida' = Medir(osSla, nowTick')
    /\ UNCHANGED <<osSla, walk>>
    /\ UNCHANGED ledgerVars
    /\ UNCHANGED appVars

\* a snapshot delivers the order with one more pause entry
SlaNovaPausa ==
    /\ Len(ArrOf(osSla.slaPausas)) < MaxEntradas
    /\ \E p \in PausasSla :
          osSla' = [osSla EXCEPT !.slaPausas = AsList(Append(ArrOf(@), p))]
    /\ medida' = Medir(osSla', nowTick)
    /\ UNCHANGED <<nowTick, walk>>
    /\ UNCHANGED ledgerVars
    /\ UNCHANGED appVars

SlaNext == SlaTick \/ SlaNovaPausa

SlaSpec == SlaInit /\ [][SlaNext]_vars

(***************************************************************************)
(* WalkSpec: one call of businessMsBetween(start, end), one step per       *)
(* iteration of its while loop.  pc: "entrada" before the first test,      *)
(* "laco" at the loop's condition, "fim" once the function has returned.   *)
(***************************************************************************)
\* Arguments of the call: every fifth hour of the days of SlaSpec.
Instantes == { h \in 0..(MaxDias * HorasPorDia) : h % 5 = 0 }

\* The midnight that opens the cursor's own day.
thisMidnight(t) == (t \div HorasPorDia) * HorasPorDia

\* nextMidnight = new Date(cursor); nextMidnight.setHours(24, 0, 0, 0)
nextMidnight(t) == ((t \div HorasPorDia) + 1) * HorasPorDia

WalkInit ==
    /\ \E st \in Instantes, en \in Instantes :
          walk = [start |-> st, end |-> en, cursor |-> st, total |-> 0,
                  pc |-> "entrada", ret |-> 0]
    /\ pausas = Absent /\ entrada = Absent /\ chamada = NoCall
    /\ retorno = FALSE /\ origem = TRUE /\ relogio = 0
    /\ doc = Null /\ crew = Null /\ lista = Null /\ agora = 0 /\ hist = Null
    /\ osSla = Null /\ nowTick = 0 /\ medida = Null

\* if (end.getTime() <= start.getTime()) return 0;
WalkEntrar ==
    /\ walk.pc = "entrada"
    /\ walk' = IF walk.end <= walk.start
               THEN [walk EXCEPT !.pc = "fim", !.ret = 0]
               ELSE [walk EXCEPT !.pc = "laco"]
    /\ UNCHANGED <<osSla, nowTick, medida>>
    /\ UNCHANGED ledgerVars
    /\ UNCHANGED appVars

\* one iteration of while (cursor.getTime() < end.getTime()) { ... }
WalkIterar ==
    /\ walk.pc = "laco"
    /\ walk.cursor < walk.end
    /\ LET day          == getDay(walk.cursor)
           isWeekend    == day = 0 \/ day = 6
           segmentEndMs == Min(walk.end, nextMidnight(walk.cursor))
           segmentMs    == Max(0, segmentEndMs - walk.cursor)
       IN  walk' = [walk EXCEPT
                      !.total  = IF isWeekend THEN @ ELSE @ + segmentMs,
                      !.cursor = segmentEndMs]
    /\ UNCHANGED <<osSla, nowTick, medida>>
    /\ UNCHANGED ledgerVars
    /\ UNCHANGED appVars

\* the loop's condition fails: return total
WalkSair ==
    /\ walk.pc = "laco"
    /\ ~(walk.cursor < walk.end)
    /\ walk' = [walk EXCEPT !.pc = "fim", !.ret = walk.total]
    /\ UNCHANGED <<osSla, nowTick, medida>>
    /\ UNCHANGED ledgerVars
    /\ UNCHANGED appVars

WalkNext == WalkEntrar \/ WalkIterar \/ WalkSair

\* The call runs on the JavaScript thread without yielding: a step that can be
\* taken is taken.
WalkSpec == WalkInit /\ [][WalkNext]_vars /\ WF_vars(WalkNext)

(***************************************************************************)
(* Properties of the ledger (LedgerSpec).                                  *)
(***************************************************************************)
OpenSanear(arr)      == { i \in DOMAIN arr : IsOpenSanear(arr[i]) }
OpenSanearCount(arr) == Cardinality(OpenSanear(arr))
LastOpen(arr)        == CHOOSE i \in OpenSanear(arr) : \A j \in OpenSanear(arr) : j <= i
StartGiven           == CoalesceT(chamada.t, chamada.now)

\* C1: starting from an empty or absent list, after any sequence of
\* upsertSanearPause and closeSanearPause calls, each applied to the previous
\* result, the list holds at most one open SANEAR pause.
C1_AtMostOneOpen ==
    origem => OpenSanearCount(ArrOf(pausas)) <= 1

\* C1 witness: from an empty list a pause was opened, closed and another one
\* opened, so the list holds a closed and an open SANEAR pause.
C1_Witness ==
    /\ origem
    /\ chamada.op = "upsert"
    /\ Len(ArrOf(pausas)) = 2
    /\ OpenSanearCount(ArrOf(pausas)) = 1

\* C3 (as stated): upsertSanearPause on a list with an open SANEAR pause adds
\* no entry, leaves exactly one open SANEAR pause, the entry's motivo and
\* descricao equal the values passed for every value of them, and its
\* inicioEm and tipo are the ones it had before.
C3_AsStated ==
    (chamada.op = "upsert" /\ OpenSanearCount(ArrOf(entrada)) >= 1) =>
        LET a == ArrOf(entrada)
            b == ArrOf(pausas)
            i == LastOpen(a)
        IN  /\ Len(b) = Len(a)
            /\ OpenSanearCount(b) = 1
            /\ b[i].motivo = chamada.motivo
            /\ b[i].descricao = chamada.descricao
            /\ b[i].inicioEm = a[i].inicioEm
            /\ b[i].tipo = a[i].tipo

\* C3 (amended): upsertSanearPause on a list with an open SANEAR pause adds no
\* entry and changes only the open SANEAR entry with the highest index, so the
\* number of open SANEAR pauses is unchanged; on that entry motivo and
\* descricao equal the values passed when these are not null and keep their
\* previous values otherwise, inicioEm is the one it had (the call's start
\* time when it had none), tipo is written "SANEAR" and fimEm stays absent.
C3_UpsertInPlace ==
    (chamada.op = "upsert" /\ OpenSanearCount(ArrOf(entrada)) >= 1) =>
        LET a == ArrOf(entrada)
            b == ArrOf(pausas)
            i == LastOpen(a)
        IN  /\ Len(b) = Len(a)
            /\ OpenSanearCount(b) = OpenSanearCount(a)
            /\ \A j \in DOMAIN a : j # i => b[j] = a[j]
            /\ b[i].motivo = Coalesce(chamada.motivo, a[i].motivo)
            /\ b[i].descricao = Coalesce(chamada.descricao, a[i].descricao)
            /\ b[i].inicioEm = CoalesceT(a[i].inicioEm, StartGiven)
            /\ b[i].tipo = "SANEAR"
            /\ normTipo(a[i].tipo) = "SANEAR"
            /\ b[i].fimEm = NoTime

\* C3 witness: a second upsert with another motivo and descricao reached a list
\* whose open SANEAR pause had its own motivo, descricao and inicioEm.
C3_Witness ==
    /\ chamada.op = "upsert"
    /\ OpenSanearCount(ArrOf(entrada)) = 1
    /\ chamada.motivo # Null
    /\ chamada.descricao # Null
    /\ LET a == ArrOf(entrada)
           i == LastOpen(a)
       IN  /\ a[i].motivo \notin {Null, chamada.motivo}
           /\ a[i].inicioEm # NoTime
           /\ ArrOf(pausas)[i].motivo = chamada.motivo

\* C4: upsertSanearPause on a list with no open SANEAR pause returns the input
\* entries unchanged and in order, followed by one new last entry with
\* tipo = SANEAR, fimEm absent, the given motivo and descricao, and inicioEm
\* equal to the given start time, or the current time when none is given.
C4_UpsertAppends ==
    (chamada.op = "upsert" /\ OpenSanearCount(ArrOf(entrada)) = 0) =>
        LET a == ArrOf(entrada)
            b == ArrOf(pausas)
        IN  /\ Len(b) = Len(a) + 1
            /\ \A j \in DOMAIN a : b[j] = a[j]
            /\ b[Len(b)].tipo = "SANEAR"
            /\ b[Len(b)].fimEm = NoTime
            /\ b[Len(b)].motivo = chamada.motivo
            /\ b[Len(b)].descricao = chamada.descricao
            /\ b[Len(b)].inicioEm = StartGiven

\* C4 witness: an upsert with a given start time appended to a non-empty list
\* whose SANEAR pause was closed.
C4_Witness ==
    /\ chamada.op = "upsert"
    /\ OpenSanearCount(ArrOf(entrada)) = 0
    /\ \E j \in DOMAIN ArrOf(entrada) : normTipo(ArrOf(entrada)[j].tipo) = "SANEAR"
    /\ chamada.t = ServerTs
    /\ Len(ArrOf(pausas)) = Len(ArrOf(entrada)) + 1

\* C5: closeSanearPause on a list with an open SANEAR pause sets fimEm to the
\* close time on the open SANEAR entry with the highest index and on no other
\* entry; every other entry and every other field of the closed entry is
\* unchanged, and so are the length and the order of the list.
C5_CloseFrame ==
    (chamada.op = "close" /\ OpenSanearCount(ArrOf(entrada)) >= 1) =>
        LET a == ArrOf(entrada)
            b == ArrOf(pausas)
            i == LastOpen(a)
        IN  /\ Len(b) = Len(a)
            /\ \A j \in DOMAIN a : j # i => b[j] = a[j]
            /\ b[i] = [a[i] EXCEPT !.fimEm = StartGiven]
            /\ b[i].fimEm # NoTime

\* C5 witness: a close reached a list with two open SANEAR pauses and an entry
\* after nothing: the later one was closed, the earlier one is still open.
C5_Witness ==
    /\ chamada.op = "close"
    /\ OpenSanearCount(ArrOf(entrada)) = 2
    /\ OpenSanearCount(ArrOf(pausas)) = 1
    /\ chamada.t # NoTime

\* C6: closeSanearPause on a list with no open SANEAR pause (empty, absent, or
\* with SANEAR pauses that are all closed) returns a sequence equal to its
\* input.
C6_CloseNoOp ==
    (chamada.op = "close" /\ OpenSanearCount(ArrOf(entrada)) = 0) =>
        ArrOf(pausas) = ArrOf(entrada)

\* C6 witness: a close reached a list whose SANEAR pause was already closed
\* and that also holds an open pause of another kind.
C6_Witness ==
    /\ chamada.op = "close"
    /\ OpenSanearCount(ArrOf(entrada)) = 0
    /\ \E j \in DOMAIN ArrOf(entrada) :
          /\ normTipo(ArrOf(entrada)[j].tipo) = "SANEAR"
          /\ ArrOf(entrada)[j].fimEm # NoTime
    /\ \E j \in DOMAIN ArrOf(entrada) :
          /\ normTipo(ArrOf(entrada)[j].tipo) # "SANEAR"
          /\ ArrOf(entrada)[j].fimEm = NoTime

\* C7: once an entry's fimEm has been set, no later upsertSanearPause or
\* closeSanearPause call changes or clears it.
C7_FimEmStable ==
    [][ \A i \in DOMAIN ArrOf(pausas) :
            ArrOf(pausas)[i].fimEm # NoTime =>
                /\ i \in DOMAIN ArrOf(pausas')
                /\ ArrOf(pausas')[i].fimEm = ArrOf(pausas)[i].fimEm ]_vars

\* C7 witness: from an empty list a pause was opened and closed, and a second
\* close with a different close time was then applied.
C7_Witness ==
    /\ origem
    /\ chamada.op = "close"
    /\ \E i \in DOMAIN ArrOf(entrada) :
          /\ ArrOf(entrada)[i].fimEm \notin {NoTime, StartGiven}
          /\ ArrOf(pausas)[i].fimEm = ArrOf(entrada)[i].fimEm

\* C8: hasOpenSanearPause returns true iff the list has at least one entry of
\* kind SANEAR whose fimEm is absent; false for an empty or absent list and
\* for a list whose only open entries have another kind.
C8_HasOpenIff ==
    chamada.op = "hasOpen" =>
        (retorno <=> \E i \in DOMAIN ArrOf(entrada) :
                        /\ normTipo(ArrOf(entrada)[i].tipo) = "SANEAR"
                        /\ ArrOf(entrada)[i].fimEm = NoTime)

\* C8 witness: hasOpenSanearPause returned true for a list whose last entry is
\* not an open SANEAR pause.
C8_Witness ==
    /\ chamada.op = "hasOpen"
    /\ retorno
    /\ Len(ArrOf(entrada)) = 2
    /\ ~IsOpenSanear(ArrOf(entrada)[2])

(***************************************************************************)
(* Properties of the views and the stored record (Spec).                   *)
(***************************************************************************)
StoredPausas == ArrOf(doc.slaPausas)

\* C2: while the stored record has an open SANEAR pause, the chargeable age
\* that the alert panel (slaSnapshot, from the crew view's snapshot) and the
\* dashboard (buildMetrics) compute for the order does not increase as the
\* clock advances.
C2_ClockStopped ==
    [][ ( /\ hasOpenSanearPause(doc.slaPausas)
          /\ doc' = doc
          /\ crew.ordens = MapCrew(doc)
          /\ crew'.ordens = crew.ordens
          /\ AlertListed(crew.ordens)
          /\ agora' > agora )
        => ( /\ AlertAgeMs(crew'.ordens, agora') <= AlertAgeMs(crew.ordens, agora)
             /\ DashUtilMs(MapDash(doc'), agora')
                    <= DashUtilMs(MapDash(doc), agora) ) ]_vars

\* C9: a successful mark-as-waiting of an order whose status is S, followed
\* later by a successful resume, leaves the stored record with status = S,
\* statusAntesAguardandoSanear cleared and the pause that was opened closed.
C9_ResumeRestores ==
    (hist.op = "retomar" /\ hist.fecha) =>
        /\ doc.status = hist.S
        /\ doc.statusAntes = Null
        /\ hist.idx \in DOMAIN StoredPausas
        /\ StoredPausas[hist.idx].inicioEm = hist.ini
        /\ StoredPausas[hist.idx].fimEm # NoTime

\* C10: the stored pause list is append-only: every entry of the stored list
\* before a mark-as-waiting or resume action is still in it after the action,
\* at the same position and with the same inicioEm.
C10_AppendOnly ==
    [][ \A i \in DOMAIN StoredPausas :
            /\ i \in DOMAIN ArrOf(doc'.slaPausas)
            /\ ArrOf(doc'.slaPausas)[i].inicioEm = StoredPausas[i].inicioEm ]_vars

C12_NoCompletionWhileWaiting ==
    [][ ( /\ ListaSaveDetails
          /\ doc.status = AGUARDANDO \/ OpenSanearCount(StoredPausas) >= 1
          /\ StartsWithConclu(normalizeStatus(lista.modal.os.status)) )
        => doc' = doc ]_vars

\* C13: a successful mark-as-waiting writes status AGUARDANDO_SANEAR together
\* with a pause list holding exactly one open SANEAR pause; a successful resume
\* writes another status together with a pause list holding no open SANEAR
\* pause; so while these are the only writes, the stored status is
\* AGUARDANDO_SANEAR exactly when the stored list has an open SANEAR pause.
C13_StatusIffOpenPause ==
    /\ (hist.op = "marcar" /\ hist.ok) =>
            (doc.status = AGUARDANDO /\ OpenSanearCount(StoredPausas) = 1)
    /\ (hist.op = "retomar" /\ hist.ok) =>
            (doc.status # AGUARDANDO /\ OpenSanearCount(StoredPausas) = 0)
    /\ (hist.op = "none" \/ (hist.op \in {"marcar", "retomar"} /\ hist.ok)) =>
            (doc.status = AGUARDANDO <=> OpenSanearCount(StoredPausas) >= 1)

\* C13 witness: a resume closed the pause a mark had opened, and a second mark
\* then opened another one next to it.
C13_Witness ==
    /\ hist.op = "marcar"
    /\ hist.ok
    /\ Len(StoredPausas) = 2
    /\ StoredPausas[1].fimEm # NoTime
    /\ StoredPausas[2].fimEm = NoTime

(***************************************************************************)
(* Properties of the SLA clock (SlaSpec).                                  *)
(***************************************************************************)
\* Hour h falls on a Saturday or a Sunday: hour 0 opens a Thursday, so the
\* third and the fourth day of every week of seven are the weekend.
FimDeSemana(h) == ((h \div 24) % 7) \in {2, 3}

\* The hours of [a, b) that fall on Monday to Friday.
HorasUteis(a, b) == Cardinality({ h \in a..(b - 1) : ~FimDeSemana(h) })

PausasDaOs       == ArrOf(osSla.slaPausas)
FimOuAgora(p)    == IF p.fimEm >= 0 THEN p.fimEm ELSE nowTick
DuracaoBruta(p)  == IF p.inicioEm < 0 THEN 0
                    ELSE Max(0, FimOuAgora(p) - p.inicioEm)
DuracaoUtil(p)   == IF p.inicioEm < 0 THEN 0
                    ELSE HorasUteis(p.inicioEm, FimOuAgora(p))

RECURSIVE SomaBruta(_, _)
SomaBruta(arr, i) ==
    IF i = 0 THEN 0 ELSE DuracaoBruta(arr[i]) + SomaBruta(arr, i - 1)

RECURSIVE SomaUtilSanear(_, _)
SomaUtilSanear(arr, i) ==
    IF i = 0 THEN 0
    ELSE (IF arr[i].tipo = "SANEAR" THEN DuracaoUtil(arr[i]) ELSE 0)
         + SomaUtilSanear(arr, i - 1)

C15_NeverNegative ==
    /\ medida.alerta.ageMs >= 0
    /\ (medida.painel.contada /\ nowTick >= osSla.createdAt) =>
           medida.painel.utilMs >= 0

\* C16: an order without createdAt has zero elapsed time and is neither overdue
\* nor near-due in the alert panel nor counted as late in the dashboard, for
\* every now, slaHoras and pause list.
C16_NoCreatedAt ==
    osSla.createdAt = NoTime =>
        /\ medida.alerta.baseMs = 0
        /\ medida.alerta.ageMs = 0
        /\ ~medida.alerta.overdue
        /\ ~medida.alerta.nearDue
        /\ ~medida.painel.contada
        /\ medida.painel.utilMs = 0
        /\ ~medida.painel.atrasada

\* C16 witness: an order without createdAt, with a one-day SLA and a pause,
\* evaluated five days after the epoch.
C16_Witness ==
    /\ osSla.createdAt = NoTime
    /\ osSla.slaHoras = Num(HorasPorDia)
    /\ Len(PausasDaOs) >= 1
    /\ nowTick >= 5 * HorasPorDia

AbertasNaLista == { i \in DOMAIN PausasDaOs : PausasDaOs[i].fimEm = NoTime }

Nova      == ArrOf(osSla'.slaPausas)[Len(ArrOf(osSla'.slaPausas))]
Separadas(p, q) ==
    \/ q.inicioEm < 0
    \/ FimOuAgora(q) <= q.inicioEm
    \/ FimOuAgora(q) <= p.inicioEm
    \/ q.inicioEm >= p.fimEm
NovaFechadaDentro ==
    /\ nowTick' = nowTick
    /\ ArrOf(osSla'.slaPausas) = Append(PausasDaOs, Nova)
    /\ osSla.createdAt >= 0
    /\ Nova.inicioEm > osSla.createdAt
    /\ Nova.fimEm > Nova.inicioEm
    /\ Nova.fimEm < nowTick
    /\ \A i \in DOMAIN PausasDaOs : Separadas(Nova, PausasDaOs[i])

Partidas == { h \in 0..(MaxDias * HorasPorDia) : h % 7 = 0 }

\* C19: businessMsBetween(start, end) is, for every start < end, the length of
\* the parts of [start, end] that fall on days other than Saturday and Sunday;
\* from Friday 10:00 to the following Monday 10:00 it is Friday's 14 hours
\* plus Monday's 10 hours.
C19_BusinessHours ==
    /\ osSla.createdAt >= 0 =>
           medida.alerta.baseMs = HorasUteis(osSla.createdAt, nowTick)
    /\ \A st \in Partidas :
           businessMsBetween(st, nowTick) = HorasUteis(st, nowTick)
    /\ businessMsBetween(SexDez, SegDez) = 14 + 10

\* C19 witness: an order created on Friday 10:00 evaluated on Monday 12:00 has
\* a base time of Friday's 14 hours plus Monday's 12.
C19_Witness ==
    /\ osSla.createdAt = SexDez
    /\ nowTick = SegDez + 2
    /\ medida.alerta.baseMs = 14 + 12

\* C20: the effective SLA is the order's slaHoras when it is a positive number
\* and 72 hours when it is absent, null, zero, negative or not a number, and
\* getSlaHoras, the alert panel and the dashboard agree on it.
C20_EffectiveSla ==
    /\ medida.alerta.slaHoras = medida.slaLib
    /\ medida.painel.slaHoras = medida.slaLib
    /\ (osSla.slaHoras.tipo = "number" /\ osSla.slaHoras.v > 0) =>
           medida.slaLib = osSla.slaHoras
    /\ (\/ osSla.slaHoras.tipo \in {"undefined", "null", "NaN", "string"}
        \/ (osSla.slaHoras.tipo = "number" /\ osSla.slaHoras.v <= 0)) =>
           medida.slaLib = Num(SLA_HORAS_PADRAO)

\* An order without pauses, created at c with slaHoras h.
OsSemPausas(c, h) ==
    [status |-> "ABERTA", createdAt |-> c, slaHoras |-> h, slaPausas |-> Absent]

\* C21: the alert panel puts every open order with a createdAt into exactly one
\* class by its chargeable time e and its effective SLA s: overdue iff e >= s,
\* near-due iff 0.75 * s <= e < s, on track otherwise; no order is both overdue
\* and near-due.  With s = 72 and no pauses, e = 71 h is near-due and not
\* overdue and e = 73 h is overdue.
C21_Classes ==
    /\ ~(medida.alerta.overdue /\ medida.alerta.nearDue)
    /\ medida.alerta.listada =>
          LET e      == medida.alerta.ageMs
              sla    == medida.alerta.slaHoras
              finito == sla.tipo = "number"
          IN  /\ medida.alerta.overdue <=> (finito /\ e >= sla.v)
              /\ medida.alerta.nearDue <=>
                    (finito /\ 4 * e >= 3 * sla.v /\ e < sla.v)
    /\ LET quinta == OsSemPausas(0, Num(72))
           a71    == AlertaDe(quinta, 4 * 24 + 23)
           a73    == AlertaDe(quinta, 5 * 24 + 1)
       IN  /\ a71.ageMs = 71 /\ a71.nearDue /\ ~a71.overdue
           /\ a73.ageMs = 73 /\ a73.overdue /\ ~a73.nearDue

\* C21 witness: an order without pauses and with the default SLA is near-due
\* after 60 business hours.
C21_Witness ==
    /\ medida.alerta.listada
    /\ medida.alerta.slaHoras = Num(SLA_HORAS_PADRAO)
    /\ Len(PausasDaOs) = 0
    /\ medida.alerta.ageMs = 60
    /\ medida.alerta.nearDue
    /\ ~medida.alerta.overdue

\* C22: an order whose chargeable time equals its SLA exactly is overdue at
\* every surface that reports overdue orders: in the alert panel and in the
\* dashboard's count of late orders.
C22_InclusiveBoundary ==
    /\ ( /\ medida.alerta.listada
         /\ medida.alerta.slaHoras.tipo = "number"
         /\ medida.alerta.ageMs = medida.alerta.slaHoras.v )
       => medida.alerta.overdue
    /\ ( /\ medida.painel.contada
         /\ medida.painel.slaHoras.tipo = "number"
         /\ medida.painel.utilMs = medida.painel.slaHoras.v )
       => medida.painel.atrasada

\* A step that adds a pause entry whose kind is not SANEAR.
NovaDeOutroTipo ==
    /\ nowTick' = nowTick
    /\ ArrOf(osSla'.slaPausas) = Append(PausasDaOs, Nova)
    /\ normTipo(Nova.tipo) # "SANEAR"

\* C23: pause entries whose kind is not SANEAR are ignored by the elapsed-time
\* math: adding one changes neither the chargeable time nor the overdue
\* result, in the alert panel and in the dashboard.
C23_OtherKindsIgnored ==
    [][ NovaDeOutroTipo
        => ( /\ medida'.alerta.ageMs = medida.alerta.ageMs
             /\ medida'.alerta.overdue = medida.alerta.overdue
             /\ medida'.alerta.nearDue = medida.alerta.nearDue
             /\ medida'.painel.utilMs = medida.painel.utilMs
             /\ medida'.painel.atrasada = medida.painel.atrasada ) ]_vars

RECURSIVE SomaBrutaSanear(_, _)
SomaBrutaSanear(arr, i) ==
    IF i = 0 THEN 0
    ELSE (IF arr[i].tipo = "SANEAR" THEN DuracaoBruta(arr[i]) ELSE 0)
         + SomaBrutaSanear(arr, i - 1)

\* C24 (as stated): in the alert panel the base time leaves out the weekend
\* but the paused time subtracted from it is measured by the clock, end - start
\* of each pause; a pause that covers a Saturday is subtracted with its full
\* length.
C24_AsStated ==
    (medida.alerta.listada) =>
        /\ medida.alerta.baseMs = HorasUteis(osSla.createdAt, nowTick)
        /\ medida.alerta.pausadoMs = SomaBrutaSanear(PausasDaOs, Len(PausasDaOs))
        /\ medida.alerta.ageMs =
              Max(0, medida.alerta.baseMs
                     - SomaBrutaSanear(PausasDaOs, Len(PausasDaOs)))

\* C24 (amended): in the alert panel the base time leaves out the weekend and
\* the paused time subtracted from it is measured the same way, as the
\* Monday-to-Friday time between the start and the end of each SANEAR pause; a
\* pause that covers a Saturday is subtracted without the Saturday's hours.
C24_PausesInBusinessTime ==
    (medida.alerta.listada) =>
        /\ medida.alerta.baseMs = HorasUteis(osSla.createdAt, nowTick)
        /\ medida.alerta.ageMs =
              Max(0, medida.alerta.baseMs
                     - SomaUtilSanear(PausasDaOs, Len(PausasDaOs)))

\* C24 witness: a closed SANEAR pause from Friday 10:00 to Monday 10:00 is its
\* order's only entry and is charged 24 hours, not 72.
C24_Witness ==
    /\ medida.alerta.listada
    /\ Len(PausasDaOs) = 1
    /\ PausasDaOs[1].tipo = "SANEAR"
    /\ PausasDaOs[1].inicioEm = SexDez
    /\ PausasDaOs[1].fimEm = SegDez
    /\ medida.alerta.pausadoMs = 24
    /\ medida.alerta.baseMs > 24

(***************************************************************************)
(* Properties of the pause handlers of the two views.                      *)
(***************************************************************************)
\* The notes that are shorter than 3 characters once trimmed.
NotasCurtas == {"  a "}

\* C25: a mark-as-waiting action whose note, after trimming, is shorter than 3
\* characters opens no pause: it makes no store write and leaves the order's
\* status, statusAntesAguardandoSanear and pause list unchanged, in the store
\* and in the modal, in both views.
C25_ShortNoteNoPause ==
    [][ ( /\ hist'.op = "marcar"
          /\ hist'.nota \in NotasCurtas
          /\ CrewMarcar \/ ListaMarcar )
        => ( /\ doc' = doc
             /\ crew'.modal = crew.modal
             /\ lista'.modal = lista.modal
             /\ ~hist'.ok
             /\ hist'.msg = "descricao" ) ]_vars

\* C25 witness: the list view's dialog was confirmed with a note of one
\* character between blanks on an order that is not waiting; the dialog is
\* still open and the record has no pause.
C25_Witness ==
    /\ hist.op = "marcar"
    /\ hist.by = "lista"
    /\ hist.nota = "  a "
    /\ lista.dlg
    /\ doc.status # AGUARDANDO
    /\ StoredPausas = <<>>

\* C29: when the store write of a mark-as-waiting or resume action fails, the
\* order held in the modal keeps its previous status, statusAntesAguardandoSanear
\* and pause list, the record is unchanged, an error message is shown and the
\* in-progress flag is back to false.
C29_FailedWriteKeepsModal ==
    [][ ( /\ hist'.op \in {"marcar", "retomar"}
          /\ ~hist'.ok
          /\ hist'.nota \notin NotasCurtas
          /\ CrewMarcar \/ CrewRetomar \/ ListaMarcar \/ ListaRetomar )
        => ( /\ crew'.modal = crew.modal
             /\ lista'.modal = lista.modal
             /\ doc' = doc
             /\ hist'.msg = "erro"
             /\ ~hist'.busy ) ]_vars

\* C29 witness: the crew view's resume failed on a waiting order; the modal
\* still shows the order as waiting and the record still waits.
C29_Witness ==
    /\ hist.op = "retomar"
    /\ hist.by = "crew"
    /\ ~hist.ok
    /\ hist.msg = "erro"
    /\ crew.modal.open
    /\ normalizeStatus(crew.modal.os.status) = AGUARDANDO
    /\ doc.status = AGUARDANDO

\* C26: with the two sessions acting on the same order, each from its own
\* copy, the stored record never has a completed status while it still holds
\* an open SANEAR pause.
C26_NoCompletedWithOpenPause ==
    ~(isDoneStatus(normalizeStatus(doc.status))
      /\ OpenSanearCount(StoredPausas) >= 1)

C28_KeepsSavedStatus ==
    [][ /\ ( /\ hist'.op = "marcar"
             /\ hist'.ok
             /\ CrewMarcar \/ ListaMarcar )
           => ( /\ doc'.statusAntes # AGUARDANDO
                /\ doc.status = AGUARDANDO =>
                      doc'.statusAntes = IF doc.statusAntes # Null
                                         THEN doc.statusAntes ELSE "ABERTA" )
        /\ ( /\ hist'.op = "retomar"
             /\ hist'.ok
             /\ CrewRetomar \/ ListaRetomar )
           => doc'.status # AGUARDANDO ]_vars

(***************************************************************************)
(* Properties of one call of businessMsBetween (WalkSpec).                 *)
(***************************************************************************)
\* C30: businessMsBetween terminates for every pair of dates: it returns 0 at
\* once when end <= start, and otherwise every iteration of its loop moves the
\* cursor strictly forward, to the next midnight or to end and never past end,
\* adds a non-negative amount to the total, and the loop stops when the cursor
\* reaches end.
C30_Terminates ==
    /\ <>(walk.pc = "fim")
    /\ [][ /\ WalkEntrar =>
                 (walk.end <= walk.start
                    <=> (walk'.pc = "fim" /\ walk'.ret = 0))
           /\ WalkIterar =>
                 ( /\ walk'.cursor > walk.cursor
                   /\ walk'.cursor <= walk.end
                   /\ walk'.cursor = walk.end
                      \/ walk'.cursor = (walk.cursor \div 24 + 1) * 24
                   /\ walk'.total >= walk.total )
           /\ WalkSair =>
                 (walk.cursor = walk.end /\ walk'.ret = walk.total) ]_vars
    /\ [](walk.pc = "fim" =>
            walk.ret = businessMsBetween(walk.start, walk.end))

\* C30 witness: the call from Friday 11:00 to Monday 09:00 has returned
\* Friday's 13 hours plus Monday's 9, with the cursor at end.
C30_Witness ==
    /\ walk.pc = "fim"
    /\ walk.start = 35
    /\ walk.end = 105
    /\ walk.cursor = walk.end
    /\ walk.ret = 13 + 9

====
